---- MODULE Spec2Model ----
(***************************************************************************)
(* State-machine model of arctis-audio-switcher.py: the hidraw device      *)
(* locator, the headset status poller, the sink lookup / switch and the    *)
(* main poll loop.  Text is modelled as sequences of one-character         *)
(* strings so that Python's substring, upper/lower, split and sort         *)
(* operations are computed, not assumed.                                   *)
(***************************************************************************)
EXTENDS Integers, Sequences, FiniteSets, TLC

VARIABLES
    pc,          \* position of main()
    fs,          \* /dev/hidraw* nodes and their sysfs uevent metadata
    device,      \* main: device = find_hidraw_device()
    fd,          \* the device handle: "none", "open", "closed"
    last_state,  \* main: last_state
    state,       \* main: state = get_headset_state(fd)
    response,    \* get_headset_state: response = os.read(fd, 128)
    sink_id,     \* switch_audio: sink_id = find_sink_id(...)
    setArg,      \* argument of the last "wpctl set-default" command line
    rx,          \* input reports queued on the hidraw node, oldest first
    pending,     \* poll commands the base has not answered, oldest first
    exitCode,    \* process exit status, -1 while running
    exitCause,   \* why the process ended
    polls,       \* history: poll outcomes tested by the loop (line 190)
    switches,    \* history: switch_audio invocations, [pos, pattern]
    rec,         \* whether this run records the two histories (TRUE) or
                 \* the last switch_audio call and the status bytes (FALSE)
    cyc,         \* I/O events of the current poll cycle (of the startup,
                 \* before the first cycle)
    lastAtPoll,  \* last_state when the current poll cycle began
    attempts,    \* number of locate / open attempts made
    sigAt,       \* position at which SIGINT arrived, "none" before
    result_stdout, \* find_sink_id: result.stdout of "wpctl status"
    tried,       \* the last switch_audio call that returned: state, result
                 \* and identifier passed to set-default
    seen         \* status bytes: of the most recent definitive reply of an
                 \* earlier cycle (prev) and of this cycle's reply (cur)

vars == <<pc, fs, device, fd, last_state, state, response, sink_id, setArg,
          rx, pending, exitCode, exitCause, polls, switches, rec, cyc,
          lastAtPoll, attempts, sigAt,
                   result_stdout, tried, seen>>

-----------------------------------------------------------------------------
(* Bounds of the model *)

MaxPolls == 6

MaxRx == 1

MaxPending == 1

-----------------------------------------------------------------------------
(* Text helpers: Python str operations on sequences of characters *)

LowerAlpha == <<"a","b","c","d","e","f","g","h","i","j","k","l","m",
                "n","o","p","q","r","s","t","u","v","w","x","y","z">>

UpperAlpha == <<"A","B","C","D","E","F","G","H","I","J","K","L","M",
                "N","O","P","Q","R","S","T","U","V","W","X","Y","Z">>

DigitChars == <<"0","1","2","3","4","5","6","7","8","9">>

\* str.upper() on one character
UpperChar(c) ==
    IF \E k \in 1..26 : LowerAlpha[k] = c
    THEN UpperAlpha[CHOOSE k \in 1..26 : LowerAlpha[k] = c]
    ELSE c

\* str.lower() on one character
LowerChar(c) ==
    IF \E k \in 1..26 : UpperAlpha[k] = c
    THEN LowerAlpha[CHOOSE k \in 1..26 : UpperAlpha[k] = c]
    ELSE c

Upper(s) == [i \in 1..Len(s) |-> UpperChar(s[i])]

\* mutant: no case folding, the comparison is case-sensitive
Unfolded(s) == s

Lower(s) == [i \in 1..Len(s) |-> LowerChar(s[i])]

\* Python's  pat in s
Contains(s, pat) ==
    \E i \in 1..(Len(s) - Len(pat) + 1) : SubSeq(s, i, i + Len(pat) - 1) = pat

\* code-point order of the characters that occur in device paths
PathChars == <<"/","0","1","2","3","4","5","6","7","8","9",
               "a","d","e","h","i","r","v","w">>

Ord(c) == CHOOSE k \in 1..Len(PathChars) : PathChars[k] = c

\* Python's  a < b  on str: lexicographic by code point
StrLess(a, b) ==
    \E i \in 1..(Len(a) + 1) :
        /\ i <= Len(b)
        /\ \A j \in 1..(i - 1) : a[j] = b[j]
        /\ (i = Len(a) + 1 \/ Ord(a[i]) < Ord(b[i]))

\* sorted(xs): the ascending arrangement of a list of distinct strings
RECURSIVE SortedSeq(_)
SortedSeq(S) ==
    IF S = {} THEN <<>>
    ELSE LET m == CHOOSE x \in S : \A y \in S \ {x} : StrLess(x, y)
         IN  <<m>> \o SortedSeq(S \ {m})

Range(s) == {s[i] : i \in 1..Len(s)}

sorted(xs) == SortedSeq(Range(xs))

-----------------------------------------------------------------------------
(* Configuration and device constants, lines 27-47 *)

HEADPHONE_SINK_NAME ==
    <<"A","r","c","t","i","s"," ","N","o","v","a"," ","P","r","o">>

SPEAKER_SINK_NAME ==
    <<"S","t","a","r","s","h","i","p","/","M","a","t","i","s","s","e">>

VENDOR_ID == <<"1","0","3","8">>

PRODUCT_IDS == << <<"1","2","E","0">>, <<"1","2","E","5">> >>

HEADSET_OFFLINE == 1

HEADSET_CHARGING == 2

HEADSET_ONLINE == 8

-----------------------------------------------------------------------------
(* The hidraw nodes and their sysfs metadata (the locator's input) *)

DEV_PREFIX == <<"/","d","e","v","/","h","i","d","r","a","w">>

\* the device numbers a /dev/hidraw node may carry in the model
DevNums == { <<"1">>, <<"2">>, <<"1","0">> }

\* the text of /sys/class/hidraw/hidrawN/device/uevent as the kernel's HID
\* core writes it: bus, vendor and product in HID_ID and MODALIAS, the USB
\* interface at the end of HID_PHYS
UEVENT_HID_ID ==
    <<"H","I","D","_","I","D","=","0","0","0","3",":","0","0","0","0">>

UEVENT_PHYS ==
    <<"\n","H","I","D","_","P","H","Y","S","=","u","s","b","-","0","0","0",
      "0",":","0","b",":","0","0",".","3","-","2","/","i","n","p","u","t">>

UEVENT_MODALIAS ==
    <<"\n","M","O","D","A","L","I","A","S","=","h","i","d",":","b","0","0",
      "0","3","g","0","0","0","1","v","0","0","0","0">>

Uevent(md) ==
    UEVENT_HID_ID \o md.vendor \o <<":","0","0","0","0">> \o md.product
    \o UEVENT_PHYS \o md.iface
    \o UEVENT_MODALIAS \o md.vendor \o <<"p","0","0","0","0">> \o md.product
    \o <<"\n">>

\* A node is absent (no /dev entry), present without a uevent file, present
\* with a uevent file whose read fails, or present with readable text.
NoText(kind) == [kind |-> kind, vendor |-> <<>>, product |-> <<>>, iface |-> <<>>]

Vendors == { <<"1","0","3","8">>, <<"1","2","E","5">> }

Products == { <<"1","2","E","0">>, <<"1","2","E","5">>, <<"1","0","3","8">> }

Ifaces == { <<"4">>, <<"0">>, <<"4","0">> }

TextMetas ==
    [kind : {"text"}, vendor : Vendors, product : Products, iface : Ifaces]

Metas == {NoText("absent"), NoText("nouevent"), NoText("unreadable")}
         \cup TextMetas

\* the Arctis Nova Pro Wireless base station's control interface
GoodMeta ==
    [kind |-> "text", vendor |-> <<"1","0","3","8">>,
     product |-> <<"1","2","E","0">>, iface |-> <<"4">>]

\* glob.glob("/dev/hidraw*"): the present nodes, in any order
Present(f) == {DEV_PREFIX \o n : n \in {m \in DevNums : f[m].kind # "absent"}}

GlobOrders(f) ==
    LET S == Present(f)
        n == Cardinality(S)
    IN  {s \in [1..n -> S] : \A i, j \in 1..n : i # j => s[i] # s[j]}

-----------------------------------------------------------------------------
(* find_hidraw_device, lines 50-85 *)

NoDevice == <<>>

\* str.replace(old, ""): every occurrence of old removed, left to right
RECURSIVE Remove(_, _)
Remove(s, old) ==
    IF Len(s) < Len(old) THEN s
    ELSE IF SubSeq(s, 1, Len(old)) = old
         THEN Remove(SubSeq(s, Len(old) + 1, Len(s)), old)
         ELSE <<s[1]>> \o Remove(Tail(s), old)

\* lines 56-58 and 60, 63-64: the metadata found for a device path
MetaOf(f, dev) == f[Remove(dev, DEV_PREFIX)]

\* lines 60-77: does the loop body reach line 79 with this metadata
UeventAccepted(md) ==
    /\ md.kind # "nouevent"                          \* line 60
    /\ md.kind # "unreadable"                        \* line 63 raises, line 82
    /\ LET uevent == Upper(Uevent(md))               \* line 64
       IN  /\ Contains(uevent, VENDOR_ID)            \* line 67
           /\ \E k \in 1..Len(PRODUCT_IDS) :         \* line 71
                  Contains(uevent, PRODUCT_IDS[k])
           /\ Contains(uevent, <<"I","N","P","U","T","4">>)      \* line 75

\* UeventAccepted tabulated over the metadata of the model, as pairs
AcceptedMeta == {<<md, UeventAccepted(md)>> : md \in Metas}

\* the loop body, lines 55-83, for one device path
Accepts(f, dev) == <<MetaOf(f, dev), TRUE>> \in AcceptedMeta

\* the for loop over an already sorted list
RECURSIVE FirstAccepted(_, _)
FirstAccepted(f, devs) ==
    IF devs = <<>> THEN NoDevice
    ELSE IF Accepts(f, Head(devs)) THEN Head(devs)
         ELSE FirstAccepted(f, Tail(devs))

find_hidraw_device(f, hidraw_devices) ==
    FirstAccepted(f, sorted(hidraw_devices))

-----------------------------------------------------------------------------
(* get_headset_state, lines 88-113: the reply parser *)

\* os.read(fd, 128): at most this many bytes of the report
READ_SIZE == 128

\* len(response) < 16
MIN_RESPONSE == 16

\* response[15], a zero-based offset
STATUS_OFFSET == 15

\* os.read on a hidraw node returns one queued report, cut to the buffer size
os_read(report) ==
    SubSeq(report, 1, IF Len(report) < READ_SIZE THEN Len(report) ELSE READ_SIZE)

\* mutant: the status byte taken one offset early, response[14]
ParseStatusEarly(resp) ==
    IF Len(resp) < MIN_RESPONSE THEN "NONE"
    ELSE LET status_byte == resp[STATUS_OFFSET]
         IN  IF status_byte = HEADSET_OFFLINE THEN "OFF"
             ELSE IF status_byte \in {HEADSET_ONLINE, HEADSET_CHARGING} THEN "ON"
             ELSE "NONE"

\* mutant: the charging byte read as a headset that is switched off
ParseStatusChargingOff(resp) ==
    IF Len(resp) < MIN_RESPONSE THEN "NONE"
    ELSE LET status_byte == resp[STATUS_OFFSET + 1]
         IN  IF status_byte \in {HEADSET_OFFLINE, HEADSET_CHARGING} THEN "OFF"
             ELSE IF status_byte = HEADSET_ONLINE THEN "ON"
             ELSE "NONE"

\* lines 99-109; "NONE" is Python's None
ParseStatus(resp) ==
    IF Len(resp) < MIN_RESPONSE THEN "NONE"
    ELSE LET status_byte == resp[STATUS_OFFSET + 1]
         IN  IF status_byte = HEADSET_OFFLINE THEN "OFF"
             ELSE IF status_byte \in {HEADSET_ONLINE, HEADSET_CHARGING} THEN "ON"
             ELSE "NONE"

\* an input report of n bytes: byte b at offset 15, byte fill elsewhere
Report(n, b, fill) == [i \in 1..n |-> IF i = STATUS_OFFSET + 1 THEN b ELSE fill]

\* what the base station may answer in the poll loop: a full report with one
\* of the three known status bytes or an unknown one, or a truncated report
LoopReports ==
    {Report(MIN_RESPONSE, b, 0) : b \in {HEADSET_OFFLINE, HEADSET_CHARGING,
                                          HEADSET_ONLINE, 0}}
    \cup {Report(MIN_RESPONSE - 1, 0, HEADSET_ONLINE)}

-----------------------------------------------------------------------------
(* find_sink_id, lines 116-151: parsing the text of "wpctl status" *)

\* no sink found: Python's None
NoSink == -1

\* the box-drawing characters of wpctl's tree are written by code point
BOX_V == "U+2502"

LineAudio ==
    <<"A","u","d","i","o">>

LineDevices ==
    <<" ","U+251C","U+2500"," ","D","e","v","i","c","e","s",":">>

LineDevArctis ==
    <<" ","U+2502"," "," "," "," "," "," ","4","0","."," ","A","r","c","t",
      "i","s"," ","N","o","v","a"," ","P","r","o"," ","W","i","r","e","l",
      "e","s","s"," ","[","a","l","s","a","]">>

LineBlank ==
    <<" ","U+2502"," "," ">>

LineSinks ==
    <<" ","U+251C","U+2500"," ","S","i","n","k","s",":">>

LineSinkArctis ==
    <<" ","U+2502"," "," ","*"," "," "," ","5","2","."," ","A","r","c","t",
      "i","s"," ","N","o","v","a"," ","P","r","o"," ","W","i","r","e","l",
      "e","s","s"," ","A","n","a","l","o","g"," ","S","t","e","r","e","o",
      " ","[","v","o","l",":"," ","0",".","9","5","]">>

LineSinkSpeakers ==
    <<" ","U+2502"," "," "," "," "," "," ","5","3","."," ","S","t","a","r",
      "s","h","i","p","/","M","a","t","i","s","s","e"," ","H","D"," ","A",
      "u","d","i","o"," ","C","o","n","t","r","o","l","l","e","r"," ","A",
      "n","a","l","o","g"," ","S","t","e","r","e","o"," ","[","v","o","l",
      ":"," ","1",".","0","0","]">>

LineSinkArctisB ==
    <<" ","U+2502"," "," "," "," "," "," ","6","1","."," ","A","r","c","t",
      "i","s"," ","N","o","v","a"," ","P","r","o"," ","W","i","r","e","l",
      "e","s","s"," ","A","n","a","l","o","g"," ","S","t","e","r","e","o",
      " ","[","v","o","l",":"," ","0",".","9","5","]">>

LineSinkSpeakersB ==
    <<" ","U+2502"," "," ","*"," "," "," ","4","7","."," ","S","t","a","r",
      "s","h","i","p","/","M","a","t","i","s","s","e"," ","H","D"," ","A",
      "u","d","i","o"," ","C","o","n","t","r","o","l","l","e","r"," ","A",
      "n","a","l","o","g"," ","S","t","e","r","e","o"," ","[","v","o","l",
      ":"," ","1",".","0","0","]">>

LineSources ==
    <<" ","U+251C","U+2500"," ","S","o","u","r","c","e","s",":">>

LineSrcArctis ==
    <<" ","U+2502"," "," "," "," "," "," ","5","4","."," ","A","r","c","t",
      "i","s"," ","N","o","v","a"," ","P","r","o"," ","W","i","r","e","l",
      "e","s","s"," ","M","o","n","o"," ","[","v","o","l",":"," ","1",".",
      "0","0","]">>

\* "\n".join(lines)
RECURSIVE JoinLines(_)
JoinLines(ls) ==
    IF ls = <<>> THEN <<>>
    ELSE IF Len(ls) = 1 THEN ls[1]
    ELSE ls[1] \o <<"\n">> \o JoinLines(Tail(ls))

\* a session with both sinks, the same session after the identifiers have
\* been reassigned, a session without the headphone sink, and no output
StdoutBoth ==
    JoinLines(<<LineAudio, LineDevices, LineDevArctis, LineBlank, LineSinks,
                LineSinkArctis, LineSinkSpeakers, LineBlank, LineSources,
                LineSrcArctis>>)

StdoutRenumbered ==
    JoinLines(<<LineAudio, LineDevices, LineDevArctis, LineBlank, LineSinks,
                LineSinkSpeakersB, LineSinkArctisB, LineBlank, LineSources,
                LineSrcArctis>>)

StdoutNoHeadphones ==
    JoinLines(<<LineAudio, LineDevices, LineDevArctis, LineBlank, LineSinks,
                LineSinkSpeakers, LineBlank, LineSources, LineSrcArctis>>)

Stdouts == {StdoutBoth, StdoutRenumbered, StdoutNoHeadphones, <<>>}

\* str.split(sep) for a one-character separator
RECURSIVE Split(_, _)
Split(s, sep) ==
    IF \A i \in 1..Len(s) : s[i] # sep THEN <<s>>
    ELSE LET k == CHOOSE i \in 1..Len(s) :
                      s[i] = sep /\ \A j \in 1..(i - 1) : s[j] # sep
         IN  <<SubSeq(s, 1, k - 1)>> \o Split(SubSeq(s, k + 1, Len(s)), sep)

IsSpace(c) == c \in {" ", "\t", "\n"}

\* s.strip().split()[-1]: the last whitespace-separated word of s, or <<>>
\* when s has no word (where Python raises IndexError)
LastWord(s) ==
    IF \A i \in 1..Len(s) : IsSpace(s[i]) THEN <<>>
    ELSE LET e == CHOOSE i \in 1..Len(s) :
                      ~IsSpace(s[i]) /\ \A j \in (i + 1)..Len(s) : IsSpace(s[j])
             b == CHOOSE i \in 1..e :
                      /\ \A j \in i..e : ~IsSpace(s[j])
                      /\ (i = 1 \/ IsSpace(s[i - 1]))
         IN  SubSeq(s, b, e)

\* str.isdigit()
IsDigit(s) ==
    Len(s) > 0 /\ \A i \in 1..Len(s) : \E d \in 1..10 : DigitChars[d] = s[i]

DigitValue(c) == (CHOOSE d \in 1..10 : DigitChars[d] = c) - 1

\* int(s) for a string of decimal digits
RECURSIVE ToInt(_)
ToInt(s) ==
    IF s = <<>> THEN 0
    ELSE 10 * ToInt(SubSeq(s, 1, Len(s) - 1)) + DigitValue(s[Len(s)])

\* str(n) for n >= 0
RECURSIVE ToStr(_)
ToStr(n) ==
    IF n < 10 THEN <<DigitChars[n + 1]>>
    ELSE ToStr(n \div 10) \o <<DigitChars[(n % 10) + 1]>>

\* lines 127-148: the loop over the lines with its in_sinks_section flag
RECURSIVE ScanLines(_, _, _)
ScanLines(ls, in_sinks_section, name_pattern) ==
    IF ls = <<>> THEN NoSink                                      \* line 148
    ELSE
      LET line == Head(ls)
          parts == Split(line, ".")
          num_part == LastWord(parts[1])
      IN  IF Contains(line, <<"S","i","n","k","s",":">>)           \* line 129
          THEN ScanLines(Tail(ls), TRUE, name_pattern)
          ELSE IF /\ in_sinks_section                              \* line 134
                  /\ Contains(line, <<":">>)
                  /\ ~Contains(line, <<BOX_V>>)
          THEN NoSink
          ELSE IF /\ in_sinks_section                              \* line 137
                  /\ Contains(Lower(line), Lower(name_pattern))
                  /\ \/ Contains(line, <<"A","n","a","l","o","g"," ",
                                         "S","t","e","r","e","o">>)
                     \/ Contains(line, <<"S","t","e","r","e","o">>) \* line 140
                  /\ Len(parts) >= 2                               \* line 142
          THEN IF num_part = <<>> THEN NoSink     \* IndexError, lines 149-151
               ELSE IF IsDigit(num_part) THEN ToInt(num_part)      \* line 146
               ELSE ScanLines(Tail(ls), in_sinks_section, name_pattern)
          ELSE ScanLines(Tail(ls), in_sinks_section, name_pattern)

find_sink_id(name_pattern, stdout) ==
    ScanLines(Split(stdout, "\n"), FALSE, name_pattern)

\* find_sink_id tabulated over the two configured patterns and the listings
SinkPatterns == {HEADPHONE_SINK_NAME, SPEAKER_SINK_NAME}

SinkIdOf ==
    [name_pattern \in SinkPatterns |->
        [stdout \in Stdouts |-> find_sink_id(name_pattern, stdout)]]

-----------------------------------------------------------------------------
(* Listings of every shape, for find_sink_id on its own *)

\* the most entries a Sinks section of a synthetic listing holds
MaxSinkEntries == 2

LineSinkSpeakersLower ==
    <<" ","U+2502"," "," "," "," "," "," "," ","7","."," ","s","t","a","r",
      "s","h","i","p","/","m","a","t","i","s","s","e"," ","h","d"," ","a",
      "u","d","i","o"," ","c","o","n","t","r","o","l","l","e","r"," ","D",
      "i","g","i","t","a","l"," ","S","t","e","r","e","o"," ","(","H","D",
      "M","I",")"," ","[","v","o","l",":"," ","0",".","4","0","]">>

LineDevArctisStereo ==
    <<" ","U+2502"," "," "," "," "," "," ","3","9","."," ","A","r","c","t",
      "i","s"," ","N","o","v","a"," ","P","r","o"," ","W","i","r","e","l",
      "e","s","s"," ","S","t","e","r","e","o"," ","A","d","a","p","t","e",
      "r"," ","[","a","l","s","a","]">>

LineSrcArctisStereo ==
    <<" ","U+2502"," "," "," "," "," "," ","5","5","."," ","A","r","c","t",
      "i","s"," ","N","o","v","a"," ","P","r","o"," ","W","i","r","e","l",
      "e","s","s"," ","A","n","a","l","o","g"," ","S","t","e","r","e","o",
      " ","[","v","o","l",":"," ","1",".","0","0","]">>

\* an entry of a listing: its line, the identifier the line starts with,
\* the configured name its description contains, and whether the
\* description says Stereo
Entry(line, id, name, stereo) ==
    [line |-> line, id |-> id, name |-> name, stereo |-> stereo]

SinkEntries ==
    { Entry(LineSinkArctis, <<"5","2">>, HEADPHONE_SINK_NAME, TRUE),
      Entry(LineSinkArctisB, <<"6","1">>, HEADPHONE_SINK_NAME, TRUE),
      Entry(LineDevArctis, <<"4","0">>, HEADPHONE_SINK_NAME, FALSE),
      Entry(LineSinkSpeakers, <<"5","3">>, SPEAKER_SINK_NAME, TRUE),
      Entry(LineSinkSpeakersLower, <<"7">>, SPEAKER_SINK_NAME, TRUE) }

DeviceEntries ==
    { Entry(LineDevArctis, <<"4","0">>, HEADPHONE_SINK_NAME, FALSE),
      Entry(LineDevArctisStereo, <<"3","9">>, HEADPHONE_SINK_NAME, TRUE) }

SourceEntries ==
    { Entry(LineSrcArctis, <<"5","4">>, HEADPHONE_SINK_NAME, FALSE),
      Entry(LineSrcArctisStereo, <<"5","5">>, HEADPHONE_SINK_NAME, TRUE) }

\* the sequences of at most n elements of S
SeqsUpTo(S, n) == UNION {[1..k -> S] : k \in 0..n}

\* a listing as "wpctl status" lays it out: the Audio tree with its
\* Devices, Sinks and Sources sections in that order
Listings ==
    [devices : SeqsUpTo(DeviceEntries, 1),
     sinks   : SeqsUpTo(SinkEntries, MaxSinkEntries),
     sources : SeqsUpTo(SourceEntries, 1)]

LinesOf(es) == [i \in 1..Len(es) |-> es[i].line]

Render(l) ==
    JoinLines(<<LineAudio, LineDevices>> \o LinesOf(l.devices)
              \o <<LineBlank, LineSinks>> \o LinesOf(l.sinks)
              \o <<LineBlank, LineSources>> \o LinesOf(l.sources))

\* find_sink_id tabulated over the synthetic listings, as tuples
\* <<listing, its text, pattern, result>>
SynthSinkId ==
    { <<l, Render(l), name_pattern, find_sink_id(name_pattern, Render(l))>> :
          l \in Listings, name_pattern \in SinkPatterns }

\* per pattern, the texts "wpctl status" may print and what find_sink_id
\* returns for each: in the poll loop, and over the synthetic listings
LoopLookups ==
    [name_pattern \in SinkPatterns |->
        {<<stdout, SinkIdOf[name_pattern][stdout]>> : stdout \in Stdouts}]

SynthLookups ==
    [name_pattern \in SinkPatterns |->
        {<<t[2], t[4]>> : t \in {x \in SynthSinkId : x[3] = name_pattern}}]

-----------------------------------------------------------------------------
(* Initial states *)

\* no switch_audio call has returned yet
NoTry == [st |-> "NONE", result |-> "none", arg |-> <<>>]

\* no reply read yet; NoByte stands for "no status byte"
NoByte == -1

NoBytes == [prev |-> NoByte, cur |-> NoByte]

\* the state of a process that has just been started, given the hidraw nodes
\* and whether the run's histories are recorded
Started(f, r) ==
    /\ pc = "locate"
    /\ fs = f
    /\ device = NoDevice
    /\ fd = "none"
    /\ last_state = "NONE"
    /\ state = "NONE"
    /\ response = <<>>
    /\ sink_id = NoSink
    /\ setArg = <<>>
    /\ rx = <<>>
    /\ pending = <<>>
    /\ exitCode = -1
    /\ exitCause = "none"
    /\ polls = <<>>
    /\ switches = <<>>
    /\ rec = r
    /\ cyc = {}
    /\ lastAtPoll = "NONE"
    /\ attempts = [locate |-> 0, open |-> 0]
    /\ sigAt = "none"
    /\ result_stdout = <<>>
    /\ tried = NoTry
    /\ seen = NoBytes

\* the machines the whole program is run on: no headset base plugged in, or
\* the base on hidraw2 beside a node without metadata
NoNodes == [n \in DevNums |-> NoText("absent")]

BaseOnHidraw2 ==
    [NoNodes EXCEPT ![<<"2">>] = GoodMeta, ![<<"1">>] = NoText("nouevent")]

LoopFs == {NoNodes, BaseOnHidraw2}

Init == \E f \in LoopFs : Started(f, TRUE)

-----------------------------------------------------------------------------
(* main, lines 165-205: startup *)

\* line 168
Locate ==
    /\ pc = "locate"
    /\ \E hidraw_devices \in GlobOrders(fs) :
           device' = find_hidraw_device(fs, hidraw_devices)
    /\ attempts' = [attempts EXCEPT !.locate = @ + 1]
    /\ pc' = "check"
    /\ UNCHANGED <<fs, fd, last_state, state, response, sink_id, setArg, rx,
                   pending, exitCode, exitCause, polls, switches, rec, cyc,
                   lastAtPoll, sigAt,
                   result_stdout, tried, seen>>

\* mutant: the result of the locator is not tested
CheckDeviceLenient ==
    /\ pc = "check"
    /\ pc' = "open"
    /\ UNCHANGED <<fs, device, fd, last_state, state, response, sink_id,
                   setArg, rx, pending, exitCode, exitCause, polls, switches,
                   rec, cyc, lastAtPoll, attempts, sigAt,
                   result_stdout, tried, seen>>

\* lines 169-174
CheckDevice ==
    /\ pc = "check"
    /\ IF device = NoDevice
       THEN pc' = "exited" /\ exitCode' = 1 /\ exitCause' = "notfound"
       ELSE pc' = "open" /\ UNCHANGED <<exitCode, exitCause>>
    /\ UNCHANGED <<fs, device, fd, last_state, state, response, sink_id,
                   setArg, rx, pending, polls, switches, rec, cyc,
                   lastAtPoll, attempts, sigAt,
                   result_stdout, tried, seen>>

\* lines 176-181: os.open succeeds, raises PermissionError (caught, exit 1)
\* or raises another OSError (uncaught: traceback, exit status 1)
OpenDevice ==
    /\ pc = "open"
    /\ attempts' = [attempts EXCEPT !.open = @ + 1]
    /\ \E outcome \in {"ok", "PermissionError", "OSError"} :
           IF outcome = "ok"
           THEN fd' = "open" /\ pc' = "monitor"
                /\ UNCHANGED <<exitCode, exitCause>>
           ELSE fd' = fd /\ pc' = "exited" /\ exitCode' = 1
                /\ exitCause' = outcome
    /\ UNCHANGED <<fs, device, last_state, state, response, sink_id, setArg,
                   rx, pending, polls, switches, rec, cyc, lastAtPoll, sigAt,
                   result_stdout, tried, seen>>

\* lines 183-186
Monitor ==
    /\ pc = "monitor"
    /\ last_state' = "NONE"
    /\ pc' = "poll"
    /\ UNCHANGED <<fs, device, fd, state, response, sink_id, setArg, rx,
                   pending, exitCode, exitCause, polls, switches, rec, cyc,
                   lastAtPoll, attempts, sigAt,
                   result_stdout, tried, seen>>

-----------------------------------------------------------------------------
(* get_headset_state as called from line 188 *)

\* mutant: no except clause, the exception leaves the loop
Uncaught ==
    /\ state' = state
    /\ pc' = "finally"
    /\ exitCause' = "exception"
    /\ UNCHANGED exitCode

\* lines 111-113: an exception raised in the try block is caught and the
\* call returns None to line 188
CaughtReturnNone ==
    /\ state' = "NONE"
    /\ pc' = "test"
    /\ UNCHANGED <<exitCode, exitCause>>

\* the base station receives a poll command: the replies still owed, and the
\* reports still queued, now belong to earlier polls ("old"); the base keeps
\* at most MaxPending commands and forgets the oldest beyond that
Aged(q) == [i \in 1..Len(q) |-> "old"]

Received(q) ==
    LET all == Aged(q) \o <<"cur">>
    IN  IF Len(all) > MaxPending THEN Tail(all) ELSE all

\* line 91: os.write(fd, POLL_COMMAND)
PollWrite ==
    /\ pc = "poll"
    /\ rx' = Aged(rx)
    /\ \/ /\ pending' = Received(pending)
          /\ pc' = "wait"
          /\ cyc' = {"write"}
          /\ UNCHANGED <<state, exitCode, exitCause>>
       \/ /\ CaughtReturnNone
          /\ cyc' = {"write", "ioerror", "print112"}
          /\ pending' = Aged(pending)
    /\ UNCHANGED <<fs, device, fd, last_state, response, sink_id, setArg,
                   polls, switches, rec, lastAtPoll, attempts, sigAt,
                   result_stdout, tried, seen>>

\* mutant: select without a timeout, the call blocks until a report is
\* queued
PollWaitForever ==
    /\ pc = "wait"
    /\ rx # <<>>
    /\ pc' = "read"
    /\ cyc' = cyc \cup {"wait"}
    /\ UNCHANGED <<state, exitCode, exitCause>>
    /\ UNCHANGED <<fs, device, fd, last_state, response, sink_id, setArg, rx,
                   pending, polls, switches, rec, lastAtPoll, attempts, sigAt,
                   result_stdout, tried, seen>>

\* lines 94-96: select.select([fd], [], [], 0.5) reports the handle readable
\* when a report is queued, and nothing when the 0.5 s pass without one
PollWait ==
    /\ pc = "wait"
    /\ \/ /\ rx # <<>>
          /\ pc' = "read"
          /\ cyc' = cyc \cup {"wait"}
          /\ UNCHANGED <<state, exitCode, exitCause>>
       \/ /\ rx = <<>>
          /\ state' = "NONE"
          /\ pc' = "test"
          /\ cyc' = cyc \cup {"wait", "timeout"}
          /\ UNCHANGED <<exitCode, exitCause>>
       \/ /\ CaughtReturnNone
          /\ cyc' = cyc \cup {"wait", "ioerror", "print112"}
    /\ UNCHANGED <<fs, device, fd, last_state, response, sink_id, setArg, rx,
                   pending, polls, switches, rec, lastAtPoll, attempts, sigAt,
                   result_stdout, tried, seen>>

\* lines 98-109: os.read takes the oldest queued report, whose bytes are
\* whatever the base put in it, and the reply is parsed
PollReadFrom(reports) ==
    /\ pc = "read"
    /\ \/ /\ \E report \in reports : response' = os_read(report)
          /\ rx' = Tail(rx)
          /\ state' = ParseStatus(response')
          /\ pc' = "test"
          /\ cyc' = cyc \cup {"read"}
                        \cup (IF Head(rx) = "old" THEN {"stale"} ELSE {})
          /\ seen' = IF rec THEN seen
                     ELSE [seen EXCEPT !.cur =
                              IF Len(response') <= STATUS_OFFSET THEN NoByte
                              ELSE response'[STATUS_OFFSET + 1]]
          /\ UNCHANGED <<exitCode, exitCause>>
       \/ /\ CaughtReturnNone
          /\ cyc' = cyc \cup {"read", "ioerror", "print112"}
          /\ UNCHANGED <<response, rx, seen>>
    /\ UNCHANGED <<fs, device, fd, last_state, sink_id, setArg, pending,
                   polls, switches, rec, lastAtPoll, attempts, sigAt,
                   result_stdout, tried>>

PollRead == PollReadFrom(LoopReports)

-----------------------------------------------------------------------------
(* main, lines 186-200: the poll loop *)

\* mutant: the two patterns exchanged
PatternForSwapped(st) ==
    IF st = "ON" THEN SPEAKER_SINK_NAME ELSE HEADPHONE_SINK_NAME

\* lines 193-196: the pattern switch_audio is called with
PatternFor(st) ==
    IF st = "ON" THEN HEADPHONE_SINK_NAME ELSE SPEAKER_SINK_NAME

\* mutant: level-triggered, every definitive outcome counts as a change
ChangedLevel(st, last) == st # "NONE"

\* mutant: the truth test of state dropped, None compared like a state
ChangedAny(st, last) == st # last

\* line 190
Changed(st, last) == st # "NONE" /\ st # last

\* mutant: the new state is assigned to last_state before switch_audio is
\* called
TestStateRecordFirst ==
    /\ pc = "test"
    /\ pc' = IF Changed(state, last_state) THEN "list" ELSE "sleep"
    /\ last_state' = IF Changed(state, last_state) THEN state ELSE last_state
    /\ response' = <<>>
    /\ UNCHANGED <<fs, device, fd, state, sink_id, setArg, rx, pending,
                   exitCode, exitCause, polls, switches, rec, cyc,
                   lastAtPoll, attempts, sigAt, result_stdout, tried, seen>>

\* mutant: a change is recorded without switch_audio being called
TestStateNoSwitch ==
    /\ pc = "test"
    /\ pc' = IF Changed(state, last_state) THEN "record" ELSE "sleep"
    /\ response' = <<>>
    /\ UNCHANGED <<fs, device, fd, last_state, state, sink_id, setArg, rx,
                   pending, exitCode, exitCause, polls, switches, rec, cyc,
                   lastAtPoll, attempts, sigAt, result_stdout, tried, seen>>

\* lines 190-196: the test of the poll outcome and the call of switch_audio;
\* a recording run notes the outcome tested and the call made, for the
\* first MaxPolls cycles
TestState ==
    /\ pc = "test"
    /\ LET noted == rec /\ Len(polls) < MaxPolls
       IN  /\ polls' = IF noted THEN Append(polls, state) ELSE polls
           /\ IF Changed(state, last_state)
              THEN /\ pc' = "list"
                   /\ switches' =
                          IF noted
                          THEN Append(switches, [pos |-> Len(polls'),
                                                 pattern |-> PatternFor(state)])
                          ELSE switches
              ELSE /\ pc' = "sleep"
                   /\ UNCHANGED switches
    /\ response' = <<>>
    /\ UNCHANGED <<fs, device, fd, last_state, state, sink_id, setArg, rx,
                   pending, exitCode, exitCause, rec, cyc, lastAtPoll,
                   attempts, sigAt,
                   result_stdout, tried, seen>>

\* line 156 (find_sink_id, lines 116-151) and lines 157-159: "wpctl status"
\* prints a listing, or cannot be run (the exception is caught, line 149)
FindSinkFrom(lookups) ==
    /\ pc = "list"
    /\ \/ \E found \in lookups[PatternFor(state)] :
              /\ result_stdout' = found[1]
              /\ sink_id' = found[2]
              /\ cyc' = cyc \cup {"list"}
                            \cup (IF sink_id' = NoSink THEN {"print158"}
                                  ELSE {})
       \/ /\ result_stdout' = <<>>
          /\ sink_id' = NoSink
          /\ cyc' = cyc \cup {"list", "print150", "print158"}
    /\ pc' = IF sink_id' = NoSink THEN "record" ELSE "setdef"
    /\ UNCHANGED <<fs, device, fd, last_state, state, response, setArg, rx,
                   pending, exitCode, exitCause, polls, switches, rec,
                   lastAtPoll, attempts, sigAt, tried, seen>>

FindSink == FindSinkFrom(LoopLookups)

\* mutant: the identifier passed at the last switch is kept and passed again
SetDefaultCached ==
    /\ pc = "setdef"
    /\ setArg' = IF tried.arg # <<>> THEN tried.arg ELSE ToStr(sink_id)
    /\ \E outcome \in {"zero", "nonzero", "OSError"} :
           /\ cyc' = cyc \cup {"print161", "setdef", outcome}
           /\ IF outcome = "OSError"
              THEN /\ pc' = "finally"
                   /\ exitCause' = "exception"
                   /\ polls' = <<>>
                   /\ switches' = <<>>
              ELSE /\ pc' = "record"
                   /\ UNCHANGED <<exitCause, polls, switches>>
    /\ UNCHANGED <<fs, device, fd, last_state, state, response, sink_id, rx,
                   pending, exitCode, rec, lastAtPoll, attempts, sigAt,
                   result_stdout, tried, seen>>

\* lines 161-162: "wpctl set-default <id>" exits 0, exits non-zero
\* (check=False: ignored), or cannot be run (OSError, caught by no except
\* clause: only the finally clause of line 204 runs)
SetDefault ==
    /\ pc = "setdef"
    /\ setArg' = ToStr(sink_id)
    /\ \E outcome \in {"zero", "nonzero", "OSError"} :
           /\ cyc' = cyc \cup {"print161", "setdef", outcome}
           /\ IF outcome = "OSError"
              THEN /\ pc' = "finally"
                   /\ exitCause' = "exception"
                   /\ polls' = <<>>
                   /\ switches' = <<>>
              ELSE /\ pc' = "record"
                   /\ UNCHANGED <<exitCause, polls, switches>>
    /\ UNCHANGED <<fs, device, fd, last_state, state, response, sink_id, rx,
                   pending, exitCode, rec, lastAtPoll, attempts, sigAt,
                   result_stdout, tried, seen>>

\* mutant: the state is recorded only when a sink was found, so that a
\* missed switch is tried again at the next poll
RecordIfFound ==
    /\ pc = "record"
    /\ last_state' = IF sink_id = NoSink THEN last_state ELSE state
    /\ sink_id' = NoSink
    /\ setArg' = <<>>
    /\ result_stdout' = <<>>
    /\ tried' = IF rec THEN tried
                ELSE [st |-> state,
                      result |-> IF sink_id = NoSink THEN "nosink"
                                 ELSE IF "nonzero" \in cyc THEN "nonzero"
                                 ELSE "zero",
                      arg |-> setArg]
    /\ pc' = "sleep"
    /\ UNCHANGED <<fs, device, fd, state, response, rx, pending, exitCode,
                   exitCause, polls, switches, rec, cyc, lastAtPoll,
                   attempts, sigAt, seen>>

\* line 198, reached when switch_audio has returned
Record ==
    /\ pc = "record"
    /\ last_state' = state
    /\ sink_id' = NoSink
    /\ setArg' = <<>>
    /\ result_stdout' = <<>>
    /\ tried' = IF rec THEN tried
                ELSE [st |-> state,
                      result |-> IF sink_id = NoSink THEN "nosink"
                                 ELSE IF "nonzero" \in cyc THEN "nonzero"
                                 ELSE "zero",
                      arg |-> setArg]
    /\ pc' = "sleep"
    /\ UNCHANGED <<fs, device, fd, state, response, rx, pending, exitCode,
                   exitCause, polls, switches, rec, cyc, lastAtPoll,
                   attempts, sigAt, seen>>

\* line 200: the sleep that ends a poll cycle
Sleep ==
    /\ pc = "sleep"
    /\ pc' = "poll"
    /\ cyc' = {}
    /\ lastAtPoll' = last_state
    /\ seen' = [prev |-> IF state # "NONE" /\ seen.cur # NoByte
                         THEN seen.cur ELSE seen.prev,
                cur |-> NoByte]
    /\ UNCHANGED <<fs, device, fd, last_state, state, response, sink_id,
                   setArg, rx, pending, exitCode, exitCause, polls, switches,
                   rec, attempts, sigAt, result_stdout, tried>>

-----------------------------------------------------------------------------
(* main, lines 202-205: interrupt and cleanup *)

\* the positions inside the try block of lines 186-200
LoopPcs == {"poll", "wait", "read", "test", "list", "setdef", "record", "sleep"}

\* the positions before it
StartPcs == {"locate", "check", "open", "monitor"}

\* SIGINT while the loop runs: KeyboardInterrupt is raised at the current
\* position; no "except Exception" clause catches it, line 202 does.  The
\* frames of get_headset_state and switch_audio are unwound.  The histories
\* are those of the running loop: they are dropped when the loop is left.
Interrupt ==
    /\ pc \in LoopPcs
    /\ pc' = "except"
    /\ exitCause' = "interrupt"
    /\ sigAt' = pc
    /\ response' = <<>>
    /\ sink_id' = NoSink
    /\ setArg' = <<>>
    /\ polls' = <<>>
    /\ switches' = <<>>
    /\ result_stdout' = <<>>
    /\ UNCHANGED <<fs, device, fd, last_state, state, rx, pending, exitCode,
                   rec, cyc, lastAtPoll, attempts, tried, seen>>

\* SIGINT before the try block: the KeyboardInterrupt is not caught and the
\* interpreter ends the process with the signal's status
InterruptStartup ==
    /\ pc \in StartPcs
    /\ pc' = "exited"
    /\ exitCode' = 130
    /\ exitCause' = "sigint"
    /\ sigAt' = pc
    /\ UNCHANGED <<fs, device, fd, last_state, state, response, sink_id,
                   setArg, rx, pending, polls, switches, rec, cyc,
                   lastAtPoll, attempts, result_stdout, tried, seen>>

\* lines 202-203
ExceptInterrupt ==
    /\ pc = "except"
    /\ pc' = "finally"
    /\ UNCHANGED <<fs, device, fd, last_state, state, response, sink_id,
                   setArg, rx, pending, exitCode, exitCause, polls, switches,
                   rec, cyc, lastAtPoll, attempts, sigAt,
                   result_stdout, tried, seen>>

\* mutant: no finally clause, the handle is left open
FinallyNoClose ==
    /\ pc = "finally"
    /\ pc' = "return"
    /\ UNCHANGED <<fs, device, fd, last_state, state, response, sink_id,
                   setArg, rx, pending, exitCode, exitCause, polls, switches,
                   rec, cyc, lastAtPoll, attempts, sigAt,
                   result_stdout, tried, seen>>

\* lines 204-205
Finally ==
    /\ pc = "finally"
    /\ fd' = "closed"
    /\ pc' = "return"
    /\ UNCHANGED <<fs, device, last_state, state, response, sink_id, setArg,
                   rx, pending, exitCode, exitCause, polls, switches, rec,
                   cyc, lastAtPoll, attempts, sigAt,
                   result_stdout, tried, seen>>

\* lines 208-209: main returns (status 0) or the exception that left the
\* try block reaches the top level (traceback, status 1)
ProcessEnd ==
    /\ pc = "return"
    /\ pc' = "exited"
    /\ exitCode' = IF exitCause = "exception" THEN 1 ELSE 0
    /\ UNCHANGED <<fs, device, fd, last_state, state, response, sink_id,
                   setArg, rx, pending, exitCause, polls, switches, rec, cyc,
                   lastAtPoll, attempts, sigAt,
                   result_stdout, tried, seen>>

-----------------------------------------------------------------------------
(* The headset base station *)

\* the base answers the oldest poll command it still owes a reply with an
\* input report, at any time after the write; the hidraw node queues at most
\* MaxRx reports
DeviceReply ==
    /\ fd = "open"
    /\ pending # <<>>
    /\ Len(rx) < MaxRx
    /\ rx' = Append(rx, Head(pending))
    /\ pending' = Tail(pending)
    /\ UNCHANGED <<pc, fs, device, fd, last_state, state, response, sink_id,
                   setArg, exitCode, exitCause, polls, switches, rec, cyc,
                   lastAtPoll, attempts, sigAt,
                   result_stdout, tried, seen>>

-----------------------------------------------------------------------------
(* Specifications *)

\* the whole program, with signals
Next ==
    \/ Locate \/ CheckDevice \/ OpenDevice \/ Monitor
    \/ PollWrite \/ PollWait \/ PollRead
    \/ TestState \/ FindSink \/ SetDefault \/ Record \/ Sleep
    \/ Interrupt \/ InterruptStartup
    \/ ExceptInterrupt \/ Finally \/ ProcessEnd
    \/ DeviceReply

\* Spec records the histories of the first MaxPolls cycles
Spec == Init /\ [][Next]_vars

\* The interpreter runs the statements of the single thread one after the
\* other: a step that can be taken is taken.  The two wpctl commands are
\* left out: nothing in the code bounds the time an external command takes.
ProgramStep ==
    \/ Locate \/ CheckDevice \/ OpenDevice \/ Monitor
    \/ PollWrite \/ PollWait \/ PollRead
    \/ TestState \/ Record \/ Sleep
    \/ ExceptInterrupt \/ Finally \/ ProcessEnd

FairInit == \E f \in LoopFs : Started(f, FALSE)

FairSpec == FairInit /\ [][Next]_vars /\ WF_vars(ProgramStep)

\* the same, with the two wpctl commands always ending (by returning or by
\* raising)
ProgressSpec ==
    /\ FairInit
    /\ [][Next]_vars
    /\ WF_vars(ProgramStep)
    /\ WF_vars(FindSink)
    /\ WF_vars(SetDefault)

\* the locator run on every combination of nodes and metadata
LocInit == \E f \in [DevNums -> Metas] : Started(f, FALSE)

LocNext == Locate

LocSpec == LocInit /\ [][LocNext]_vars

\* the reply parser run on replies of every length class and status byte:
\* the process is in its first poll cycle, the handle reported readable
AllReports ==
    {Report(n, b, fill) : n \in {0, 1, 15, 16, 17, 128, 129},
                          b \in 0..255, fill \in {0, 1, 2, 8}}

ParseInit ==
    /\ pc = "read"
    /\ fs = BaseOnHidraw2
    /\ device = DEV_PREFIX \o <<"2">>
    /\ fd = "open"
    /\ last_state = "NONE"
    /\ state = "NONE"
    /\ response = <<>>
    /\ sink_id = NoSink
    /\ setArg = <<>>
    /\ rx = <<"cur">>
    /\ pending = <<>>
    /\ exitCode = -1
    /\ exitCause = "none"
    /\ polls = <<>>
    /\ switches = <<>>
    /\ rec = TRUE
    /\ cyc = {"write", "wait"}
    /\ lastAtPoll = "NONE"
    /\ attempts = [locate |-> 1, open |-> 1]
    /\ sigAt = "none"
    /\ result_stdout = <<>>
    /\ tried = NoTry
    /\ seen = NoBytes

ParseNext == PollReadFrom(AllReports)

ParseSpec == ParseInit /\ [][ParseNext]_vars

\* switch_audio run on every synthetic listing: the loop has just detected
\* a change to Online or to Offline
SinkInit ==
    \E st \in {"ON", "OFF"} :
        /\ pc = "list"
        /\ fs = BaseOnHidraw2
        /\ device = DEV_PREFIX \o <<"2">>
        /\ fd = "open"
        /\ last_state = "NONE"
        /\ state = st
        /\ response = <<>>
        /\ sink_id = NoSink
        /\ setArg = <<>>
        /\ rx = <<>>
        /\ pending = <<>>
        /\ exitCode = -1
        /\ exitCause = "none"
        /\ polls = <<>>
        /\ switches = <<>>
        /\ rec = FALSE
        /\ cyc = {"write", "wait", "read"}
        /\ lastAtPoll = "NONE"
        /\ attempts = [locate |-> 1, open |-> 1]
        /\ sigAt = "none"
        /\ result_stdout = <<>>
        /\ tried = NoTry
        /\ seen = [prev |-> NoByte,
                   cur |-> IF st = "ON" THEN HEADSET_ONLINE
                           ELSE HEADSET_OFFLINE]

SinkNext == FindSinkFrom(SynthLookups) \/ SetDefault

SinkSpec == SinkInit /\ [][SinkNext]_vars

-----------------------------------------------------------------------------
(* What the histories should be, computed from the poll outcomes alone *)

\* position i holds a definitive outcome that differs from the most recent
\* earlier definitive outcome, or is the first definitive outcome
IsEdge(ps, i) ==
    /\ ps[i] # "NONE"
    /\ LET earlier == {j \in 1..(i - 1) : ps[j] # "NONE"}
       IN  \/ earlier = {}
           \/ ps[CHOOSE j \in earlier : \A k \in earlier : k <= j] # ps[i]

SwitchesAt(i) == {k \in 1..Len(switches) : switches[k].pos = i}

IsDefinitive(o) == o # "NONE"

\* consecutive duplicates collapsed
RECURSIVE Collapse(_)
Collapse(ps) ==
    IF Len(ps) <= 1 THEN ps
    ELSE IF ps[1] = ps[2] THEN Collapse(Tail(ps))
    ELSE <<ps[1]>> \o Collapse(Tail(ps))

TargetOf(o) ==
    IF o = "ON"
    THEN <<"A","r","c","t","i","s"," ","N","o","v","a"," ","P","r","o">>
    ELSE <<"S","t","a","r","s","h","i","p","/","M","a","t","i","s","s","e">>

ExpectedTargets(ps) ==
    LET c == Collapse(SelectSeq(ps, IsDefinitive))
    IN  [k \in 1..Len(c) |-> TargetOf(c[k])]

-----------------------------------------------------------------------------
(* Claims *)

\* C1: edge-triggering.  For the sequence of poll outcomes the loop has
\* tested, switch_audio has been invoked exactly once at every position
\* whose outcome is definitive and differs from the most recent earlier
\* definitive outcome (or is the first definitive one), and not at all at
\* any other position.
C1_EdgeTriggered ==
    /\ \A i \in 1..Len(polls) :
           Cardinality(SwitchesAt(i)) = IF IsEdge(polls, i) THEN 1 ELSE 0
    /\ \A k \in 1..Len(switches) : switches[k].pos \in 1..Len(polls)

\* a repeated Online with an Unknown in between, after an Offline: the
\* second Online caused no second switch
C1_Witness ==
    /\ Len(polls) = 4
    /\ polls = <<"OFF", "ON", "NONE", "ON">>
    /\ Len(switches) = 2
    /\ pc = "sleep"

\* C2: the ordered list of switch targets equals the poll outcomes with
\* Unknown deleted, consecutive duplicates collapsed, and Online mapped to
\* the headphones pattern, Offline to the speakers pattern.
C2_TargetList ==
    [k \in 1..Len(switches) |-> switches[k].pattern] = ExpectedTargets(polls)

\* the scenario [Unknown, Offline, Offline, Online, Unknown, Offline] has
\* run and has given speakers, headphones, speakers
C2_Witness ==
    /\ polls = <<"NONE", "OFF", "OFF", "ON", "NONE", "OFF">>
    /\ [k \in 1..Len(switches) |-> switches[k].pattern]
           = <<SPEAKER_SINK_NAME, HEADPHONE_SINK_NAME, SPEAKER_SINK_NAME>>
    /\ pc = "sleep"

\* C3: in a poll cycle whose outcome is Unknown the loop goes from the test
\* to the sleep: last_state is what it was when the cycle began and neither
\* "wpctl status" nor "wpctl set-default" has been run in the cycle.
C3_UnknownIsInert ==
    (state = "NONE" /\ pc \in {"test", "list", "setdef", "record", "sleep"})
        => /\ pc \in {"test", "sleep"}
           /\ last_state = lastAtPoll
           /\ cyc \cap {"list", "setdef"} = {}

\* an Unknown outcome (a reply that was read but not recognised) tested
\* while the headset is known to be Online
C3_Witness ==
    /\ pc = "sleep"
    /\ state = "NONE"
    /\ last_state = "ON"
    /\ "read" \in cyc
    /\ "ioerror" \notin cyc

\* C4: the result of a poll that has read a reply depends only on the
\* reply's length and its byte at offset 15: shorter than 16 bytes gives
\* Unknown; else 0x01 gives Offline, 0x08 and 0x02 give Online, any other
\* byte gives Unknown.
C4_StatusParsing ==
    (pc = "test" /\ "read" \in cyc /\ "ioerror" \notin cyc)
        => state = IF Len(response) < 16 THEN "NONE"
                   ELSE CASE response[16] = 1 -> "OFF"
                          [] response[16] = 8 -> "ON"
                          [] response[16] = 2 -> "ON"
                          [] OTHER -> "NONE"

\* a full-size reply whose status byte is "charging" among bytes that say
\* "offline" everywhere else: the result is Online
C4_Witness ==
    /\ pc = "test"
    /\ "ioerror" \notin cyc
    /\ Len(response) = 128
    /\ response[16] = 2
    /\ response[15] = 1
    /\ response[17] = 1
    /\ state = "ON"

\* C5: an I/O error raised by the write, the wait or the read of a poll is
\* turned into Unknown: the call returns None to the loop, which tests it
\* and sleeps, with last_state as it was; nothing but an interrupt ends the
\* process in that cycle, and unless interrupted the loop goes on to its
\* next cycle.
C5_ErrorIsUnknown ==
    /\ []( "ioerror" \in cyc =>
             /\ pc \in {"test", "sleep", "except", "finally", "return",
                        "exited"}
             /\ pc \in {"test", "sleep"} => state = "NONE"
             /\ last_state = lastAtPoll
             /\ cyc \cap {"list", "setdef"} = {}
             /\ exitCause \in {"none", "interrupt"}
             /\ exitCode \in {-1, 0} )
    /\ ("ioerror" \in cyc) ~> (pc = "poll" \/ exitCause = "interrupt")

\* the read of a poll has failed while the headset was known to be Online,
\* and the loop has reached its sleep
C5_Witness ==
    /\ {"write", "wait", "read", "ioerror"} \subseteq cyc
    /\ pc = "sleep"
    /\ state = "NONE"
    /\ last_state = "ON"

\* C6: when the wait of a poll expires, the poll returns Unknown without a
\* read; the wait always ends, and after a timeout the next poll is started
\* unless the process is interrupted first.
C6_Timeout ==
    /\ []( "timeout" \in cyc =>
             /\ "read" \notin cyc
             /\ pc \in {"test", "sleep"} => state = "NONE"
             /\ pc \notin {"wait", "read", "list", "setdef", "record"} )
    /\ (pc = "wait") ~> (pc # "wait")
    /\ ("timeout" \in cyc)
           ~> (("write" \in cyc /\ "timeout" \notin cyc)
               \/ exitCause = "interrupt")

\* a poll has timed out while the base still owed its reply, and the loop
\* has reached its sleep
C6_Witness ==
    /\ "timeout" \in cyc
    /\ pc = "sleep"
    /\ pending # <<>>

\* the identity the locator is asked for: vendor, product, interface
HasIdentity(md) ==
    /\ md.kind = "text"
    /\ md.vendor = <<"1","0","3","8">>
    /\ md.product \in { <<"1","2","E","0">>, <<"1","2","E","5">> }
    /\ md.iface = <<"4">>

Located == pc = "check"

\* C7: the locator only returns a node whose vendor ID is the target vendor
\* ID, whose product ID is one of the accepted ones and whose interface
\* index is 4.
C7_OnlyTheIdentity ==
    (Located /\ device # NoDevice)
        => HasIdentity(fs[SubSeq(device, Len(DEV_PREFIX) + 1, Len(device))])

\* the paths of the present nodes that have the identity
Qualifying == {d \in Present(fs) :
                  HasIdentity(fs[SubSeq(d, Len(DEV_PREFIX) + 1, Len(d))])}

\* C8: whatever the order of enumeration, the locator returns the lowest
\* qualifying path in sorted order, and NotFound exactly when no node
\* qualifies; nodes without readable metadata do not stop the scan.
C8_LowestQualifying ==
    Located =>
        IF Qualifying = {} THEN device = NoDevice
        ELSE /\ device \in Qualifying
             /\ \A d \in Qualifying \ {device} : StrLess(device, d)

\* the failures of the startup
StartupFailures == {"notfound", "PermissionError", "OSError"}

\* C9: a NotFound from the locator, or a failed open, ends the process with
\* status 1 after one locate and at most one open, with no poll command
\* written and no wpctl command run; the loop is never entered without a
\* located and opened device.
C9_StartupFatal ==
    /\ exitCause \in StartupFailures =>
           /\ pc = "exited"
           /\ exitCode = 1
           /\ attempts.locate = 1
           /\ attempts.open = IF exitCause = "notfound" THEN 0 ELSE 1
           /\ cyc = {}
           /\ polls = <<>>
           /\ fd = "none"
    /\ pc \in LoopPcs => (device # NoDevice /\ fd = "open")
    /\ attempts.locate <= 1 /\ attempts.open <= 1

\* the node was found and could not be opened
C9_Witness ==
    /\ exitCause = "PermissionError"
    /\ pc = "exited"
    /\ device # NoDevice
    /\ attempts = [locate |-> 1, open |-> 1]

\* the locator found nothing
C9_WitnessNotFound ==
    /\ exitCause = "notfound"
    /\ pc = "exited"
    /\ attempts = [locate |-> 1, open |-> 0]

\* C10: an interrupt that arrives anywhere in the poll loop is followed by
\* the release of the handle and then by the exit with status 0; the
\* process does not exit on an interrupt with the handle still open.
C10_CleanShutdown ==
    /\ []( exitCause = "interrupt" =>
             /\ sigAt \in LoopPcs
             /\ pc \in {"except", "finally", "return", "exited"}
             /\ pc \in {"except", "finally"} => fd = "open"
             /\ pc \in {"return", "exited"} => fd = "closed"
             /\ exitCode = IF pc = "exited" THEN 0 ELSE -1 )
    /\ (exitCause = "interrupt")
           ~> (pc = "exited" /\ fd = "closed" /\ exitCode = 0)

\* interrupted while "wpctl set-default" was about to run, and exited
C10_Witness ==
    /\ exitCause = "interrupt"
    /\ sigAt = "setdef"
    /\ pc = "exited"
    /\ fd = "closed"
    /\ exitCode = 0

-----------------------------------------------------------------------------
(* Cleanup *)

\* C11: whenever the process has exited after os.open succeeded, the handle
\* has been closed, and once it is closed no poll step is taken on it.
C11_GuaranteedCleanup ==
    /\ (pc = "exited" /\ fd # "none") => fd = "closed"
    /\ fd = "closed" => pc \in {"return", "exited"}

-----------------------------------------------------------------------------
(* Switching *)

\* C12: when the listing holds no matching sink, no set-default command is
\* run, the new state is recorded all the same, the loop goes on to the
\* next poll, and no switch is tried again for that state until another
\* definitive state has been switched to.
C12_MissedSwitch ==
    /\ []( /\ (pc = "record" /\ sink_id = NoSink) => "setdef" \notin cyc
           /\ (pc = "sleep" /\ "print158" \in cyc)
                  => /\ "setdef" \notin cyc
                     /\ last_state = state
                     /\ tried.st = state
                     /\ tried.result = "nosink"
           /\ (pc \in {"list", "setdef", "record"} /\ tried.result = "nosink")
                  => state # tried.st )
    /\ (pc = "record" /\ sink_id = NoSink)
           ~> (pc = "poll" \/ exitCause # "none")

\* the switch to the headphones found no sink, and a later poll that read
\* Online again has reached its sleep without a listing
C12_Witness ==
    /\ pc = "sleep"
    /\ tried.st = "ON"
    /\ tried.result = "nosink"
    /\ state = "ON"
    /\ "read" \in cyc
    /\ "list" \notin cyc

\* the identifier of the first entry of the Sinks section whose description
\* contains the name and says Stereo; <<>> when there is none
ExpectedId(l, name) ==
    LET hits == {i \in 1..Len(l.sinks) :
                    l.sinks[i].name = name /\ l.sinks[i].stereo}
    IN  IF hits = {} THEN <<>>
        ELSE l.sinks[CHOOSE i \in hits : \A j \in hits : i <= j].id

\* C13: for every listing, set-default is run with the identifier of the
\* first entry of the Sinks section that contains the pattern (whatever the
\* case) and says Stereo; entries of other sections and entries without
\* Stereo are not selected; with no such entry no set-default is run.
C13_SinkSelection ==
    \A t \in SynthSinkId :
        ( /\ pc \in {"setdef", "record", "finally"}
          /\ "list" \in cyc
          /\ "print150" \notin cyc
          /\ t[2] = result_stdout
          /\ t[3] = (IF state = "ON" THEN HEADPHONE_SINK_NAME
                     ELSE SPEAKER_SINK_NAME) )
        => LET want == ExpectedId(t[1], t[3])
           IN  IF want = <<>>
               THEN sink_id = NoSink /\ pc = "record" /\ "setdef" \notin cyc
               ELSE /\ sink_id # NoSink
                    /\ pc = "setdef" => "setdef" \notin cyc
                    /\ pc # "setdef" => ("setdef" \in cyc /\ setArg = want)

\* the listing has a Stereo-marked Arctis device entry, a Sinks section
\* with the raw Arctis entry 40 before the Stereo entry 52, and a Stereo
\* Arctis source: set-default was run with 52
C13_Witness ==
    /\ pc = "record"
    /\ state = "ON"
    /\ result_stdout =
           Render([devices |-> <<Entry(LineDevArctisStereo, <<"3","9">>,
                                      HEADPHONE_SINK_NAME, TRUE)>>,
                   sinks |-> <<Entry(LineDevArctis, <<"4","0">>,
                                     HEADPHONE_SINK_NAME, FALSE),
                               Entry(LineSinkArctis, <<"5","2">>,
                                     HEADPHONE_SINK_NAME, TRUE)>>,
                   sources |-> <<Entry(LineSrcArctisStereo, <<"5","5">>,
                                       HEADPHONE_SINK_NAME, TRUE)>>])
    /\ "setdef" \in cyc
    /\ setArg = <<"5","2">>

\* the messages by which the program reports a failure: lines 112, 150, 158
FailureLogs == {"print112", "print150", "print158"}

\* C14: when set-default exits non-zero, the program logs the failure, does
\* not run the command again for that state, and goes on polling.
C14_CommandFailure ==
    /\ (pc \in {"record", "sleep"} /\ "nonzero" \in cyc)
           => cyc \cap FailureLogs # {}
    /\ (pc \in {"list", "setdef", "record"} /\ tried.result = "nonzero")
           => state # tried.st
    /\ "nonzero" \in cyc => exitCause \in {"none", "interrupt"}

\* C15: once the handle is open, nothing but an interrupt makes the process
\* leave the poll loop: no outcome of "wpctl status" or "wpctl set-default"
\* does.
C15_Containment ==
    (fd # "none" /\ pc \in {"except", "finally", "return", "exited"})
        => exitCause \in {"interrupt", "sigint"}

-----------------------------------------------------------------------------
(* Status bytes across polls *)

\* C16: when the status byte of a reply is 0x08 and that of the most recent
\* earlier definitive reply was 0x02, or the other way round, the cycle
\* makes no switch and the recorded state stays Online.
C16_ChargingIsOnline ==
    ( /\ seen.prev \in {HEADSET_ONLINE, HEADSET_CHARGING}
      /\ seen.cur \in {HEADSET_ONLINE, HEADSET_CHARGING}
      /\ seen.prev # seen.cur )
    => /\ pc \notin {"list", "setdef", "record"}
       /\ "list" \notin cyc
       /\ last_state = "ON"
       /\ lastAtPoll = "ON"

\* a reply with 0x02 after the last definitive reply had 0x08, at the sleep
C16_Witness ==
    /\ seen.prev = HEADSET_ONLINE
    /\ seen.cur = HEADSET_CHARGING
    /\ pc = "sleep"

-----------------------------------------------------------------------------
(* Progress *)

\* C17: unless the process is interrupted or a command fails to return, a
\* poll command is written again and again; and a poll whose outcome is
\* definitive and differs from last_state has switch_audio called once, in
\* that same cycle, before the cycle's sleep and the next poll.
C17_Progress ==
    /\ (pc = "poll") ~> (pc \in {"wait", "test"} \/ exitCause # "none")
    /\ (pc \in LoopPcs \ {"poll"}) ~> (pc = "poll" \/ exitCause # "none")
    /\ (pc = "test" /\ state # "NONE" /\ state # last_state)
           ~> \/ pc = "sleep" /\ "list" \in cyc /\ last_state = state
              \/ exitCause # "none"
    /\ [](pc = "sleep" =>
             ("list" \in cyc <=> (state # "NONE" /\ state # lastAtPoll)))
    /\ [][(pc = "list" /\ pc' # "list") => "list" \notin cyc]_vars

\* the headset was Offline, a poll read Online, and the cycle has run the
\* listing and set-default before its sleep
C17_Witness ==
    /\ pc = "sleep"
    /\ lastAtPoll = "OFF"
    /\ state = "ON"
    /\ last_state = "ON"
    /\ {"read", "list", "setdef"} \subseteq cyc

-----------------------------------------------------------------------------
(* Order of switching and recording *)

\* C18, as stated: when switch_audio is invoked for a new state, last_state
\* already equals that state.
C18_RecordThenSwitch ==
    pc \in {"list", "setdef"} => last_state = state

\* C18, amended: switch_audio is invoked first and last_state is assigned
\* after it has returned; while switch_audio runs, last_state still is the
\* state recorded before the poll and differs from the new state.
C18_SwitchThenRecord ==
    /\ pc \in {"list", "setdef", "record"}
           => (last_state = lastAtPoll /\ last_state # state)
    /\ (pc = "sleep" /\ "list" \in cyc) => last_state = state

\* set-default is about to be run for Online while last_state is Offline
C18_Witness ==
    /\ pc = "setdef"
    /\ state = "ON"
    /\ last_state = "OFF"

-----------------------------------------------------------------------------
(* Resolution of the sink identifier *)

\* the identifier each listing of the poll loop gives the two sinks
ListedId(stdout, name) ==
    IF stdout = StdoutBoth
    THEN (IF name = HEADPHONE_SINK_NAME THEN <<"5","2">> ELSE <<"5","3">>)
    ELSE IF stdout = StdoutRenumbered
    THEN (IF name = HEADPHONE_SINK_NAME THEN <<"6","1">> ELSE <<"4","7">>)
    ELSE IF stdout = StdoutNoHeadphones /\ name = SPEAKER_SINK_NAME
    THEN <<"5","3">>
    ELSE <<>>

\* C19: a set-default command is run only after a listing of the same
\* switch_audio call, and with the identifier that listing gives the sink,
\* whatever identifier an earlier call passed.
C19_FreshLookup ==
    ( /\ pc = "record" \/ (pc = "finally" /\ exitCause = "exception")
      /\ "setdef" \in cyc )
        => /\ "list" \in cyc
           /\ result_stdout \in Stdouts
           /\ setArg = ListedId(result_stdout,
                                IF state = "ON" THEN HEADPHONE_SINK_NAME
                                ELSE SPEAKER_SINK_NAME)
           /\ setArg # <<>>

\* the last switch passed 53 for the speakers; the identifiers have since
\* been reassigned, and this switch passes 61 for the headphones, which
\* were 52 before
C19_Witness ==
    /\ pc = "record"
    /\ tried.st = "OFF"
    /\ tried.arg = <<"5","3">>
    /\ state = "ON"
    /\ result_stdout = StdoutRenumbered
    /\ setArg = <<"6","1">>

-----------------------------------------------------------------------------
(* Pairing of commands and replies *)

\* C20: the report a poll reads is the base's reply to the command written
\* by that same poll, never the reply to the command of an earlier poll.
C20_Pairing ==
    "read" \in cyc => "stale" \notin cyc

====
